---- MODULE Spec2Model ----
(***************************************************************************)
(* Multi-endpoint RPC routing layer (rpcHandler): endpoint health probe,   *)
(* endpoint selection (getRpcUrl), generic RPC dispatch (handleRpcRequest) *)
(* and contract calls (handleContractCall).                                *)
(*                                                                         *)
(* One call is in progress at a time; every step between two awaits of the *)
(* JavaScript code is one action.  Network replies are chosen by the       *)
(* environment.                                                            *)
(*                                                                         *)
(* Error messages are sequences of tokens; String.includes(pattern) is     *)
(* modelled as "pattern is one of the tokens".  Tokens are chosen so that  *)
(* no pattern occurs inside another token.                                 *)
(***************************************************************************)
EXTENDS Integers, Sequences, FiniteSets, TLC

\* ------------------------------------------------------------------ bounds
\* Number of endpoints configured for the largest chain of the registry.
MaxEndpoints == 5
MaxDepth == 2          \* nesting depth of the values given to processBigInt

\* ------------------------------------------------------- program constants
\* shuffledUrls.slice(0, 3): number of nodes checked concurrently
HeadSize == 3
\* const maxRetries = 3
maxRetries == 3

\* --------------------------------------------------------- JS value helpers
\* A chain identifier is a JS number or a JS string; v holds its digits.
Num(d) == [ty |-> "number", v |-> d]
Str(d) == [ty |-> "string", v |-> d]
Null == "null"

Range(s) == {s[i] : i \in 1..Len(s)}
Min(S) == CHOOSE x \in S : \A y \in S : x <= y

\* ------------------------------------------------------------ configuration
EndpointPool == <<"p1", "p2", "p3", "p4", "p5", "p6", "p7">>

\* rpcs.json: the chain list
rpcConfig ==
  << [chainId |-> Num("1"),   networkId |-> Num("1"),   name |-> "Ethereum",
      rpc |-> <<"e1", "e2">>],
     [chainId |-> Num("61"),  networkId |-> Num("1"),   name |-> "Classic",
      rpc |-> <<"c1">>],
     [chainId |-> Num("56"),  networkId |-> Num("56"),  name |-> "BNB",
      rpc |-> <<"b1", "b2">>],
     [chainId |-> Num("137"), networkId |-> Num("137"), name |-> "Polygon",
      rpc |-> SubSeq(EndpointPool, 1, MaxEndpoints)],
     [chainId |-> Num("5"),   networkId |-> Num("5"),   name |-> "Goerli",
      rpc |-> <<>>],
     [chainId |-> Num("10"),  networkId |-> Num("420"), name |-> "Optimism",
      rpc |-> <<"s1", "o1">>] >>

\* variant: the last matching entry is taken
FindChainLast(id) ==
  LET hits == {i \in 1..Len(rpcConfig) :
                 rpcConfig[i].chainId = id \/ rpcConfig[i].networkId = id}
  IN IF hits = {} THEN 0 ELSE CHOOSE x \in hits : \A y \in hits : y <= x

\* variant: identifiers are compared after conversion (==), "1" matches 1
FindChainLoose(id) ==
  LET hits == {i \in 1..Len(rpcConfig) :
                 rpcConfig[i].chainId.v = id.v \/ rpcConfig[i].networkId.v = id.v}
  IN IF hits = {} THEN 0 ELSE Min(hits)

\* rpcConfig.find(c => c.chainId === chainId || c.networkId === chainId):
\* index of the first matching entry, 0 when there is none
FindChain(id) ==
  LET hits == {i \in 1..Len(rpcConfig) :
                 rpcConfig[i].chainId = id \/ rpcConfig[i].networkId = id}
  IN IF hits = {} THEN 0 ELSE Min(hits)

\* variant: a chain without endpoints falls back to a default endpoint
RpcUrlsWithDefault(id) ==
  IF rpcConfig[FindChain(id)].rpc = <<>> THEN <<"e1">> ELSE rpcConfig[FindChain(id)].rpc

\* chain.rpc.map(r => r.url)
RpcUrls(id) == rpcConfig[FindChain(id)].rpc

\* [...rpcUrls].sort(() => Math.random() - 0.5): any permutation
Shuffles(urls) ==
  {p \in [1..Len(urls) -> Range(urls)] :
     \A i, j \in 1..Len(urls) : i # j => p[i] # p[j]}

\* variant: every node is checked concurrently
NodesToCheckAll(shuffled) == shuffled

\* shuffledUrls.slice(0, 3)
NodesToCheck(shuffled) ==
  SubSeq(shuffled, 1, IF Len(shuffled) < HeadSize THEN Len(shuffled) ELSE HeadSize)

\* variant: shuffledUrls.slice(4)
FallbackNodesSkipOne(shuffled) == SubSeq(shuffled, HeadSize + 2, Len(shuffled))

\* shuffledUrls.slice(3)
FallbackNodes(shuffled) == SubSeq(shuffled, HeadSize + 1, Len(shuffled))

\* variant: the remaining nodes are checked from the last to the first
FallbackAtReversed(nodes, k) == nodes[Len(nodes) + 1 - k]

\* for (const url of shuffledUrls.slice(3)): the url of the k-th iteration
FallbackAt(nodes, k) == nodes[k]

\* abi.json: contract name -> ABI entries
abiConfig ==
  [token |->
     << [type |-> "constructor", name |-> "",          stateMutability |-> "nonpayable",
         inputs |-> <<"uint256">>,            outputs |-> <<>>],
        [type |-> "function",    name |-> "balanceOf", stateMutability |-> "view",
         inputs |-> <<"address">>,            outputs |-> <<"uint256">>],
        [type |-> "function",    name |-> "transfer",  stateMutability |-> "nonpayable",
         inputs |-> <<"address", "uint256">>, outputs |-> <<"bool">>],
        [type |-> "event",       name |-> "Transfer",  stateMutability |-> "",
         inputs |-> <<"address", "address", "uint256">>, outputs |-> <<>>] >>]

\* abiConfig[contractName] is defined
HasAbi(contractName) == contractName \in DOMAIN abiConfig

\* contract.interface.getFunction(functionName): index of the function entry
\* of that name, 0 (null) when the interface has none
GetFunction(contractName, functionName) ==
  LET abi == abiConfig[contractName]
      hits == {i \in 1..Len(abi) : abi[i].type = "function" /\ abi[i].name = functionName}
  IN IF hits = {} THEN 0 ELSE Min(hits)

\* property names every object inherits from Object.prototype
PrototypeNames == {"toString", "hasOwnProperty"}

\* what the property read abiConfig[contractName] gives: the array of the
\* contract's ABI entries, a function inherited from Object.prototype, or
\* undefined
AbiProperty(contractName) ==
  IF contractName \in DOMAIN abiConfig THEN "array"
  ELSE IF contractName \in PrototypeNames THEN "function"
  ELSE "undefined"

\* getSupportedContracts: Object.keys(abiConfig)
getSupportedContracts == DOMAIN abiConfig

\* .map(func => ({ name, inputs, outputs, stateMutability }))
FunctionInfo(func) ==
  [name |-> func.name, inputs |-> func.inputs, outputs |-> func.outputs,
   stateMutability |-> func.stateMutability]

IsFunctionItem(item) == item.type = "function"

\* contractAbi.filter(item => item.type === 'function').map(...)
FilterMap(contractAbi) ==
  LET fns == SelectSeq(contractAbi, IsFunctionItem)
  IN [i \in 1..Len(fns) |-> FunctionInfo(fns[i])]

\* ----------------------------------------------------------- result values
BigInt(n) == [ty |-> "bigint", v |-> n]
NullValue == [ty |-> "null", v |-> ""]
Undefined == [ty |-> "undefined", v |-> ""]
Arr(items) == [ty |-> "array", items |-> items]
Obj(fields) == [ty |-> "object", fields |-> fields]

RECURSIVE processBigInt(_)

\* variant: a result with a single output is unwrapped and returned as it is
processBigIntUnwrapped(value) ==
  IF value.ty = "bigint" THEN [ty |-> "string", v |-> ToString(value.v)]
  ELSE IF value.ty = "array"
       THEN IF Len(value.items) = 1 THEN value.items[1]
            ELSE Arr([i \in 1..Len(value.items) |-> processBigInt(value.items[i])])
  ELSE IF value.ty = "object"
       THEN Obj([k \in DOMAIN value.fields |-> processBigInt(value.fields[k])])
  ELSE value

\* variant: the fields of an object are copied without being converted
processBigIntShallow(value) ==
  IF value.ty = "bigint" THEN [ty |-> "string", v |-> ToString(value.v)]
  ELSE IF value.ty = "array"
       THEN Arr([i \in 1..Len(value.items) |-> processBigInt(value.items[i])])
  ELSE value

\* processBigInt of handleContractCall
processBigInt(value) ==
  IF value.ty = "bigint" THEN [ty |-> "string", v |-> ToString(value.v)]
  ELSE IF value.ty = "array"
       THEN Arr([i \in 1..Len(value.items) |-> processBigInt(value.items[i])])
  ELSE IF value.ty = "object"
       THEN Obj([k \in DOMAIN value.fields |-> processBigInt(value.fields[k])])
  ELSE value

\* ------------------------------------------------------------------ errors
NoError == [kind |-> "none", msg |-> <<>>, status |-> 0]
Err(kind, msg) == [kind |-> kind, msg |-> msg, status |-> 0]

\* error.message.includes(pattern)
Includes(msg, pattern) == \E i \in 1..Len(msg) : msg[i] = pattern

ConfigNotFound(id) == Err("UnknownChain", <<"Configuration not found for chain ID", id.v>>)
NoAvailableNodes(id) ==
  Err("NoEndpointAvailable",
      <<"No available RPC nodes for chain", rpcConfig[FindChain(id)].name, id.v>>)

\* ------------------------------------------------------ the liveness probe
\* const dynamicId = Date.now() + Math.random()
dynamicId == Num("1730774400000.25")

\* What can come back from axios.post in isRpcAvailable.  t tells whether
\* the promise resolves ("response": a 2xx status) or how it rejects; shape
\* is what response.data is (a JSON object, the empty string of an empty
\* body, the text of a body that is not JSON, or null); id, result and error
\* are the members of a JSON object, Undefined when the member is missing.
ResponseBodies ==
  { [shape |-> "object", id |-> i, result |-> r, error |-> e] :
      i \in {dynamicId, Str(dynamicId.v), Num("1"), Undefined},
      r \in {Str("0x10"), NullValue, Undefined},
      e \in {Undefined, Str("method not found")} }
  \cup { [shape |-> sh, id |-> Undefined, result |-> Undefined, error |-> Undefined] :
           sh \in {"empty", "text", "null"} }

NoBody == [shape |-> "empty", id |-> Undefined, result |-> Undefined, error |-> Undefined]

ProbeReplies ==
  { [t |-> "response", status |-> st, data |-> d] :
      st \in {200, 201, 204}, d \in ResponseBodies }
  \cup { [t |-> "httpError", status |-> st, data |-> NoBody] :
           st \in {400, 402, 406, 404, 500, 503} }
  \cup { [t |-> k, status |-> 0, data |-> NoBody] :
           k \in {"timeout", "network", "canceled", "setup"} }

\* variant: the identifier of the reply is not compared
TryBlockNoIdTest(reply) ==
  IF reply.t # "response" THEN "throw"
  ELSE IF reply.data.shape = "null" THEN "throw"
  ELSE IF /\ reply.status = 200
          /\ reply.data.shape \in {"object", "text"}
          /\ reply.data.result # Undefined
  THEN "true"
  ELSE "false"

\* the try block of isRpcAvailable: what it returns, "throw" when control
\* passes to the catch block
TryBlock(reply) ==
  IF reply.t # "response" THEN "throw"                \* await axios.post rejects
  ELSE IF reply.data.shape = "null" THEN "throw"      \* TypeError: response.data.id
  ELSE IF reply.data.id # dynamicId THEN "false"      \* response.data.id !== dynamicId
  ELSE IF /\ reply.status = 200
          /\ reply.data.shape \in {"object", "text"}  \* response.data is truthy
          /\ reply.data.result # Undefined
  THEN "true"
  ELSE "false"

\* variant: the catch block throws the error again
CatchBlockRethrows(reply) == "throw"

\* the catch block of isRpcAvailable: every branch warns, then return false
CatchBlock(reply) == "false"

\* how a call of isRpcAvailable completes for a reply
ProbeCompletion(reply) ==
  IF TryBlock(reply) = "throw" THEN CatchBlock(reply) ELSE TryBlock(reply)

\* variant: the catch block returns true
ProbeErrorCountsAsAvailable(reply) ==
  IF TryBlock(reply) = "throw" THEN TRUE ELSE TryBlock(reply) = "true"

\* isRpcAvailable: the boolean computed from the reply
isRpcAvailable(reply) == ProbeCompletion(reply) = "true"

\* The environment: endpoint b1 refuses every connection, endpoint b2 is
\* healthy, endpoint s1 accepts the connection and never answers, every
\* other endpoint may answer anything at any time.
Health(url) ==
  IF url = "b1" THEN "down" ELSE IF url = "b2" THEN "up"
  ELSE IF url = "s1" THEN "silent" ELSE "any"

\* variant: the request is sent without signal and timeout, so that the
\* promise of a request that gets no answer never settles
RepliesOfNoTimeout(url) ==
  IF Health(url) = "down" THEN {r \in ProbeReplies : r.t = "network"}
  ELSE IF Health(url) = "up" THEN {r \in ProbeReplies : isRpcAvailable(r)}
  ELSE IF Health(url) = "silent" THEN {}
  ELSE ProbeReplies

\* how the promise of axios.post(url, ..., {signal, timeout}) can settle
RepliesOf(url) ==
  IF Health(url) = "down" THEN {r \in ProbeReplies : r.t = "network"}
  ELSE IF Health(url) = "up" THEN {r \in ProbeReplies : isRpcAvailable(r)}
  ELSE IF Health(url) = "silent" THEN {r \in ProbeReplies : r.t \in {"timeout", "canceled"}}
  ELSE ProbeReplies

\* what isRpcAvailable(url) can return
ProbeOutcomes(url) == {isRpcAvailable(r) : r \in RepliesOf(url)}

\* ------------------------------------------------- upstream calls and errors
\* The methods handleRpcRequest maps to a provider operation (the switch cases)
WellKnownMethods ==
  {"eth_blockNumber", "eth_getBalance", "eth_getTransactionCount",
   "eth_getBlockByNumber", "eth_getBlockByHash", "eth_getTransactionByHash",
   "eth_getTransactionReceipt", "eth_call", "eth_estimateGas",
   "eth_sendRawTransaction", "eth_getCode", "eth_getStorageAt", "eth_getLogs",
   "eth_chainId", "net_version", "eth_gasPrice", "eth_maxPriorityFeePerGas",
   "eth_maxFeePerGas"}

\* Failures an upstream request can end with.  kind names what happened,
\* msg is the text of error.message, status is error.response.status.
UpstreamErrors ==
  { [kind |-> "http406",       msg |-> <<"406 Not Acceptable">>,   status |-> 406],
    [kind |-> "http402",       msg |-> <<"402 Payment Required">>, status |-> 402],
    [kind |-> "http400",       msg |-> <<"400 Bad Request">>,      status |-> 400],
    [kind |-> "networkError",  msg |-> <<"network error">>,        status |-> 0],
    [kind |-> "timeout",       msg |-> <<"timeout">>,              status |-> 0],
    [kind |-> "detectNetwork", msg |-> <<"JsonRpcProvider failed to detect network">>,
                                                                   status |-> 0],
    [kind |-> "serverError",   msg |-> <<"SERVER_ERROR">>,         status |-> 500],
    [kind |-> "revert",        msg |-> <<"execution reverted">>,   status |-> 0],
    [kind |-> "malformed",     msg |-> <<"invalid request">>,      status |-> 0] }

ErrorsOf(url) ==
  IF Health(url) = "down" THEN {e \in UpstreamErrors : e.kind = "networkError"}
  ELSE IF Health(url) = "up" THEN {}
  ELSE UpstreamErrors

\* the block number an endpoint serves
BlockNumberOf(url) ==
  IF url = "b2" THEN Num("74565") ELSE IF url = "b1" THEN Num("74000") ELSE Num("100")


\* response.data of a 2xx reply to a raw JSON-RPC post: a body with a result
\* field, or a body with an error field and no result
PostBodies ==
  { [result |-> Str("pong"), hasError |-> FALSE],
    [result |-> Undefined,   hasError |-> TRUE] }

BodiesOf(url) == IF Health(url) = "down" THEN {}
                 ELSE IF Health(url) = "up" THEN {b \in PostBodies : ~b.hasError}
                 ELSE PostBodies

\* the condition of the catch block of handleRpcRequest that leads to continue
RpcNodeError(msg) ==
  \/ Includes(msg, "406 Not Acceptable")
  \/ Includes(msg, "402 Payment Required")
  \/ Includes(msg, "network error")
  \/ Includes(msg, "timeout")
  \/ Includes(msg, "400 Bad Request")
  \/ Includes(msg, "SERVER_ERROR")

\* variant: every error leads to continue
ContractNodeErrorAny(msg) == TRUE

\* the condition of the catch block of handleContractCall that leads to continue
ContractNodeError(msg) ==
  \/ Includes(msg, "406 Not Acceptable")
  \/ Includes(msg, "402 Payment Required")
  \/ Includes(msg, "network error")
  \/ Includes(msg, "timeout")
  \/ Includes(msg, "JsonRpcProvider failed to detect network")
  \/ Includes(msg, "400 Bad Request")
  \/ Includes(msg, "SERVER_ERROR")

\* what a read call can return
ReadResults ==
  { BigInt(123), Str("Token"), Arr(<<BigInt(1), Arr(<<BigInt(2), NullValue>>)>>) }

\* what estimateGas, the submission and tx.wait() can return
GasEstimates == {21000, 50000}
TxResponses == { [hash |-> "0xabc", blockNumber |-> NullValue] }
Receipts == { [gasUsed |-> 20000, blockNumber |-> Num("7")] }

\* new ethers.Wallet(fromAddress, provider) throws unless fromAddress is a
\* 32-byte private key
WalletThrows(fromAddress) == fromAddress # "privateKey"

\* variant: lastError = lastError || error
RecordFirstError(previous, error) == IF previous = NoError THEN error ELSE previous

\* lastError = error
RecordLastError(previous, error) == error

\* variant: attempt <= maxRetries + 1
LoopContinuesOnceMore(a) == a <= maxRetries + 1

\* attempt <= maxRetries
LoopContinues(a) == a <= maxRetries

\* ------------------------------------------------------------------- state
VARIABLES
  call,          \* the call in progress
  pc,            \* where the call is suspended
  stage,         \* which getRpcUrl call of the attempt is running
  shuffledUrls,  \* getRpcUrl: the permutation
  results,       \* getRpcUrl.checkNodes: outcome of each concurrent check
  fallbackIdx,   \* getRpcUrl: index (in the fallback slice) being checked
  probed,        \* urls a probe request was sent to by the running getRpcUrl
  availSeen,     \* urls whose probe reported available in the running getRpcUrl
  notAvailable,  \* urls getRpcUrl logged as "not available", in order
  rpcUrl,        \* the url getRpcUrl returned
  attempt,       \* loop variable of the retry loop
  gasEstimate,   \* handleContractCall: the gas estimate
  tx,            \* handleContractCall: the submitted transaction
  lastError,     \* lastError of the retry loop
  errorLog,      \* the errors the catch block reported with console.error
  requests,      \* the upstream requests the call has sent, in order
  tried,         \* the endpoints the call has sent an upstream request to
  inFlight,      \* number of upstream requests sent and not yet settled
  norm,          \* a value followed by the results of applying processBigInt to it
  probe,         \* a reply to the request of isRpcAvailable and how the call completed
  worker,        \* the call of callContractMethod in the Workers entry point
  settleOrder,   \* the indices of the concurrent checks in the order they completed
  selections,    \* the attempt number of every getRpcUrl call the call has made, in order
  contract,      \* the contract handle of the current attempt of handleContractCall
  http,          \* the request the contract-call handler is serving and its response
  outcome        \* what the call returned or threw

selKept == <<shuffledUrls, results, fallbackIdx, probed, availSeen, notAvailable, rpcUrl,
            selections>>
selVars == <<selKept, settleOrder>>
txVars == <<gasEstimate, tx, contract>>
reqVars == <<requests, tried, inFlight>>
pureVars == <<norm, probe, worker>>
sideVars == <<norm, probe, http, worker>>
NoProbe == [reply |-> [t |-> "none", status |-> 0, data |-> NoBody], returned |-> "none"]
NoTx == [hash |-> "", gasLimit |-> 0, blockNumber |-> NullValue]
NoContract == [runner |-> "none"]
vars == <<call, pc, stage, shuffledUrls, results, fallbackIdx, probed, availSeen,
          notAvailable, rpcUrl, attempt, lastError, errorLog, requests, tried, inFlight,
          gasEstimate, tx, contract, outcome, norm, probe, http, selections,
          settleOrder, worker>>
callVars == <<call, pc, stage, selVars, attempt, lastError, errorLog, reqVars,
              txVars, outcome>>

NoCall == [op |-> "none", chainId |-> Num("0"), method |-> "", contractName |-> "",
           functionName |-> "", fromAddress |-> Null]
NoOutcome == [st |-> "none", value |-> Str(""), error |-> NoError]
Returned(v) == [st |-> "ok", value |-> v, error |-> NoError]
Thrown(e) == [st |-> "error", value |-> Str(""), error |-> e]

ChainIds ==
  {Num("1"), Num("61"), Num("56"), Num("137"), Num("5"), Num("10"), Num("420"),
   Num("999"), Str("1")}
\* chains dispatch and execute are called for
CallChainIds == ChainIds \ {Num("137"), Num("10"), Num("420")}
Methods == {"eth_blockNumber", "eth_getBalance", "web3_clientVersion"}
ContractNames == {"token", "vault"}
FunctionNames == {"constructor", "balanceOf", "transfer", "timeout"}
FromAddresses == {Null, "privateKey", "address"}
\* contract names getContractFunctions is called with
ListedNames == {"token", "vault", "toString"}

\* contractAbi.filter of a value that is not an array
FilterNotAFunction == Err("TypeError", <<"contractAbi.filter is not a function">>)

\* getContractFunctions(contractName)
getContractFunctions(contractName) ==
  IF AbiProperty(contractName) = "undefined" THEN Returned(Arr(<<>>))
  ELSE IF AbiProperty(contractName) = "array"
       THEN Returned(Arr(FilterMap(abiConfig[contractName])))
       ELSE Thrown(FilterNotAFunction)

\* ------------------------------------------- the contract-call handler
\* a member the request body does not have
Absent == "undefined"

HttpMethods == {"GET", "POST"}

\* req.body that is null or undefined (a JSON body of null, or no parsed body)
NoRequestBody ==
  [present |-> FALSE, chainId |-> Undefined, contractAddress |-> Absent,
   contractName |-> Absent, functionName |-> Absent, fromAddress |-> Null]

\* req.body: the parsed JSON object of the request, if it has one
RequestBodies ==
  {NoRequestBody}
  \cup [present : {TRUE},
        chainId : {Undefined, Num("0"), Num("61"), Num("999"), Str("61")},
        contractAddress : {Absent, "0xC0"},
        contractName : {Absent, "token", "vault", "toString"},
        functionName : {Absent, "balanceOf", "transfer"},
        fromAddress : {Null, "address"}]

HttpRequests == [method : HttpMethods, body : RequestBodies]

\* res.status(status).json({success, error, supportedContracts})
Response(status, success, error, supportedContracts) ==
  [status |-> status, success |-> success, error |-> error,
   supportedContracts |-> supportedContracts]

NoResponse == Response(0, FALSE, "", {})
NoHttp == [req |-> [method |-> "none", body |-> NoRequestBody], res |-> NoResponse]

\* !chainId
FalsyId(chainId) == chainId \in {Undefined, NullValue, Num("0"), Str("")}

\* !contractAddress, !contractName, !functionName
FalsyString(str) == str \in {Absent, ""}

\* rpcConfig.some(chain => chain.chainId === chainId || chain.networkId === chainId)
ChainExists(chainId) ==
  \E i \in 1..Len(rpcConfig) :
    rpcConfig[i].chainId = chainId \/ rpcConfig[i].networkId = chainId

\* the handler up to its call of handleContractCall: the response it sends,
\* NoResponse when it goes on to the call
Validate(req) ==
  IF req.method # "POST"
  THEN Response(405, FALSE, "Method not allowed", {})
  ELSE IF ~req.body.present
  THEN Response(500, FALSE, "Cannot destructure property of req.body", {})
  ELSE IF \/ FalsyId(req.body.chainId)
          \/ FalsyString(req.body.contractAddress)
          \/ FalsyString(req.body.contractName)
          \/ FalsyString(req.body.functionName)
  THEN Response(400, FALSE, "Missing required parameters", {})
  ELSE IF ~ChainExists(req.body.chainId)
  THEN Response(400, FALSE, "Unsupported chain ID", {})
  ELSE IF req.body.contractName \notin getSupportedContracts
  THEN Response(400, FALSE, "Unsupported contract", getSupportedContracts)
  ELSE NoResponse

\* -------------------------------------------- the Workers entry point
\* the record callContractMethod returns, or the error it would raise
WorkerResult(raised, success, error, chainId, contractAddress, functionName) ==
  [raised |-> raised, success |-> success, error |-> error, chainId |-> chainId,
   contractAddress |-> contractAddress, functionName |-> functionName]

NoWorkerResult == WorkerResult(FALSE, FALSE, "", Undefined, "", "")

NoWorker ==
  [pc |-> "none", chainId |-> Undefined, contractAddress |-> "", functionName |-> "",
   nparams |-> 0, paramKind |-> "string", rpcUrl |-> "", sent |-> 0,
   out |-> NoWorkerResult]

Init ==
  /\ call = NoCall
  /\ pc = "idle"
  /\ stage = "none"
  /\ shuffledUrls = <<>>
  /\ results = <<>>
  /\ fallbackIdx = 0
  /\ probed = {}
  /\ availSeen = {}
  /\ notAvailable = <<>>
  /\ rpcUrl = Null
  /\ selections = <<>>
  /\ settleOrder = <<>>
  /\ attempt = 0
  /\ lastError = NoError
  /\ errorLog = <<>>
  /\ requests = <<>>
  /\ tried = {}
  /\ inFlight = 0
  /\ gasEstimate = 0
  /\ tx = NoTx
  /\ contract = NoContract
  /\ outcome = NoOutcome
  /\ norm = <<>>
  /\ probe = NoProbe
  /\ http = NoHttp
  /\ worker = NoWorker

\* ------------------------------------------------------------- getRpcUrl
\* variant: the scan starts as soon as one check reported available
FirstSuccessWins ==
  \/ \E i \in 1..Len(results) : results[i] = "available"
  \/ \A i \in 1..Len(results) : results[i] # "pending"

\* Promise.allSettled(promises) has resolved
AllSettled == \A i \in 1..Len(results) : results[i] # "pending"

\* variant: only the first result is looked at
FirstResultOnly(res) == IF Len(res) > 0 /\ res[1] = "available" THEN 1 ELSE 0

\* for (const result of results) ... if (available) return url: index of the
\* first available node, 0 when the loop ends without returning
FirstAvailable(res) ==
  LET hits == {i \in 1..Len(res) : res[i] = "available"}
  IN IF hits = {} THEN 0 ELSE Min(hits)

\* variant: the url of the available check that completed first is returned
ReturnedIndexByCompletion(res, order) ==
  LET hits == {k \in 1..Len(order) : res[order[k]] = "available"}
  IN IF hits = {} THEN 0 ELSE order[Min(hits)]

\* the scan of what Promise.allSettled(promises) resolved to: the results are
\* in the order of the promises, whatever order they settled in
ReturnedIndex(res, order) == FirstAvailable(res)

\* await of an upstream request: the request is sent and the call is
\* suspended until it settles
Send(op) ==
  /\ requests' = Append(requests, [attempt |-> attempt, op |-> op])
  /\ tried' = tried \cup {rpcUrl}
  /\ inFlight' = inFlight + 1

\* variant: the request is not awaited, the call goes on while it is in flight
SettledNotAwaited(n) == n

\* the awaited request has settled
Settled(n) == n - 1

\* variant: the gas estimate is not passed on
GasLimitOmitted(estimate) == 0

\* gasLimit: gasEstimate
GasLimitOf(estimate) == estimate

\* variant: after the loop an error saying that no node is left is thrown
ThrowAllNodesFailed(last) == Err("NoEndpointAvailable", <<"No available RPC nodes for chain">>)

\* throw lastError
ThrowAfterLoop(last) == last

\* the catch block of the retry loop of handleRpcRequest and of
\* handleContractCall
Catch(e) ==
  /\ lastError' = RecordLastError(lastError, e)
  /\ errorLog' = Append(errorLog, e)
  /\ IF (IF call.op = "dispatch" THEN RpcNodeError(e.msg) ELSE ContractNodeError(e.msg))
     THEN /\ attempt' = attempt + 1           \* continue
          /\ pc' = "loop"
          /\ UNCHANGED outcome
     ELSE /\ pc' = "done"                     \* throw error
          /\ outcome' = Thrown(e)
          /\ UNCHANGED attempt
  /\ UNCHANGED <<call, stage>>

\* getRpcUrl throws: to the caller of select, or into the catch block of
\* the retry loop the call runs in
ThrowFromSelect(e) ==
  IF call.op = "select"
  THEN /\ pc' = "done"
       /\ outcome' = Thrown(e)
       /\ UNCHANGED <<call, stage, attempt, lastError, errorLog>>
  ELSE Catch(e)

\* select(chainId): a direct call of getRpcUrl
CallSelect ==
  /\ pc = "idle"
  /\ \E id \in ChainIds : call' = [NoCall EXCEPT !.op = "select", !.chainId = id]
  /\ pc' = "getRpcUrl"
  /\ stage' = "select"
  /\ outcome' = NoOutcome
  /\ attempt' = 0
  /\ lastError' = NoError
  /\ errorLog' = <<>>
  /\ UNCHANGED selVars
  /\ UNCHANGED txVars
  /\ UNCHANGED reqVars
  /\ UNCHANGED sideVars

\* variant: the checks are answered from results kept from an earlier call
ChecksFromCache(nodes) == [i \in 1..Len(nodes) |-> "available"]

\* nodesToCheck.map(async url => isRpcAvailable(url)): each call of checkNodes
\* starts one check per node, none of them settled
StartChecks(nodes) == [i \in 1..Len(nodes) |-> "pending"]

\* getRpcUrl up to its first await: lookup, shuffle, start the concurrent checks
GetRpcUrlStart ==
  /\ pc = "getRpcUrl"
  /\ IF FindChain(call.chainId) = 0
     THEN /\ ThrowFromSelect(ConfigNotFound(call.chainId))
          /\ shuffledUrls' = <<>>
          /\ results' = <<>>
          /\ probed' = {}
     ELSE /\ \E p \in Shuffles(RpcUrls(call.chainId)) :
               /\ shuffledUrls' = p
               /\ results' = StartChecks(NodesToCheck(p))
               /\ probed' = Range(NodesToCheck(p))
          /\ pc' = "checkNodes"
          /\ UNCHANGED <<call, stage, outcome, attempt, lastError, errorLog>>
  /\ fallbackIdx' = 0
  /\ availSeen' = {}
  /\ notAvailable' = <<>>
  /\ rpcUrl' = Null
  /\ selections' = Append(selections, attempt)
  /\ settleOrder' = <<>>
  /\ UNCHANGED txVars
  /\ UNCHANGED reqVars
  /\ UNCHANGED sideVars

\* one of the concurrent isRpcAvailable(url) calls completes
CheckSettles ==
  /\ pc = "checkNodes"
  /\ \E i \in 1..Len(results) :
       /\ results[i] = "pending"
       /\ \E isAvailable \in ProbeOutcomes(shuffledUrls[i]) :
            /\ results' = [results EXCEPT ![i] =
                             IF isAvailable THEN "available" ELSE "unavailable"]
            /\ availSeen' = IF isAvailable
                            THEN availSeen \cup {shuffledUrls[i]} ELSE availSeen
       /\ settleOrder' = Append(settleOrder, i)
  /\ UNCHANGED <<call, pc, stage, shuffledUrls, fallbackIdx, probed, notAvailable,
                 rpcUrl, attempt, lastError, errorLog, outcome, selections>>
  /\ UNCHANGED txVars
  /\ UNCHANGED reqVars
  /\ UNCHANGED sideVars

\* checkNodes resumes after allSettled, scans the results, and getRpcUrl
\* either returns, starts the sequential fallback, or throws
CheckNodesDone ==
  /\ pc = "checkNodes"
  /\ AllSettled
  /\ LET k == ReturnedIndex(results, settleOrder) IN
       IF k # 0
       THEN /\ rpcUrl' = shuffledUrls[k]
            /\ notAvailable' = SubSeq(shuffledUrls, 1, k - 1)
            /\ pc' = "selected"
            /\ UNCHANGED <<call, stage, outcome, attempt, lastError, errorLog, fallbackIdx, probed>>
       ELSE /\ notAvailable' = NodesToCheck(shuffledUrls)
            /\ rpcUrl' = Null
            /\ IF Len(FallbackNodes(shuffledUrls)) > 0
               THEN /\ fallbackIdx' = 1
                    /\ probed' = probed \cup {FallbackAt(FallbackNodes(shuffledUrls), 1)}
                    /\ pc' = "fallback"
                    /\ UNCHANGED <<call, stage, outcome, attempt, lastError, errorLog>>
               ELSE /\ ThrowFromSelect(NoAvailableNodes(call.chainId))
                    /\ UNCHANGED <<fallbackIdx, probed>>
  /\ settleOrder' = IF pc' = "selected" THEN settleOrder ELSE <<>>
  /\ UNCHANGED <<shuffledUrls, results, availSeen, selections>>
  /\ UNCHANGED txVars
  /\ UNCHANGED reqVars
  /\ UNCHANGED sideVars

\* the sequential isRpcAvailable(url) of the fallback loop completes
FallbackSettles ==
  /\ pc = "fallback"
  /\ LET tail == FallbackNodes(shuffledUrls)
         url == FallbackAt(tail, fallbackIdx) IN
     \E isAvailable \in ProbeOutcomes(url) :
       IF isAvailable
       THEN /\ rpcUrl' = url
            /\ availSeen' = availSeen \cup {url}
            /\ pc' = "selected"
            /\ UNCHANGED <<call, stage, outcome, attempt, lastError, errorLog, fallbackIdx, probed,
                           notAvailable>>
       ELSE /\ notAvailable' = Append(notAvailable, url)
            /\ UNCHANGED <<rpcUrl, availSeen>>
            /\ IF fallbackIdx < Len(tail)
               THEN /\ fallbackIdx' = fallbackIdx + 1
                    /\ probed' = probed \cup {FallbackAt(tail, fallbackIdx + 1)}
                    /\ UNCHANGED <<call, pc, stage, outcome, attempt, lastError, errorLog>>
               ELSE /\ ThrowFromSelect(NoAvailableNodes(call.chainId))
                    /\ UNCHANGED <<fallbackIdx, probed>>
  /\ UNCHANGED <<shuffledUrls, results, selections, settleOrder>>
  /\ UNCHANGED txVars
  /\ UNCHANGED reqVars
  /\ UNCHANGED sideVars

\* getRpcUrl returned to a direct caller
SelectReturns ==
  /\ pc = "selected"
  /\ call.op = "select"
  /\ pc' = "done"
  /\ outcome' = Returned(Str(rpcUrl))
  /\ UNCHANGED <<call, stage, attempt, lastError, errorLog>>
  /\ UNCHANGED selKept
  /\ settleOrder' = <<>>
  /\ UNCHANGED txVars
  /\ UNCHANGED reqVars
  /\ UNCHANGED sideVars

\* ------------------------------------------------------ handleRpcRequest
\* dispatch(rpcRequest, chainId) is called
CallDispatch ==
  /\ pc = "idle"
  /\ \E id \in CallChainIds, m \in Methods :
       call' = [NoCall EXCEPT !.op = "dispatch", !.chainId = id, !.method = m]
  /\ pc' = "loop"
  /\ stage' = "none"
  /\ attempt' = 1
  /\ lastError' = NoError
  /\ errorLog' = <<>>
  /\ outcome' = NoOutcome
  /\ UNCHANGED selVars
  /\ UNCHANGED txVars
  /\ UNCHANGED reqVars
  /\ UNCHANGED sideVars

\* for (let attempt = 1; attempt <= maxRetries; attempt++): the test of the
\* loop; the body starts with createRpcProvider(chainId), after the loop comes
\* throw lastError
LoopTest ==
  /\ pc = "loop"
  /\ IF LoopContinues(attempt)
     THEN /\ pc' = "getRpcUrl"
          /\ stage' = "provider"
          /\ gasEstimate' = 0                    \* const gasEstimate, const tx:
          /\ tx' = NoTx                          \* fresh in every iteration
          /\ contract' = NoContract
          /\ UNCHANGED outcome
     ELSE /\ pc' = "done"
          /\ stage' = "none"
          /\ outcome' = Thrown(ThrowAfterLoop(lastError))
          /\ UNCHANGED txVars
  /\ UNCHANGED <<call, attempt, lastError, errorLog>>
  /\ UNCHANGED selVars
  /\ UNCHANGED reqVars
  /\ UNCHANGED sideVars

\* getRpcUrl returned inside handleRpcRequest: the provider is created and
\* the switch starts a provider operation, or the default case asks
\* getRpcUrl again; a url obtained for a raw post is posted to
DispatchSelected ==
  /\ pc = "selected"
  /\ call.op = "dispatch"
  /\ IF stage = "provider"
     THEN IF call.method \in WellKnownMethods
          THEN pc' = "providerCall" /\ Send("providerCall") /\ UNCHANGED stage
          ELSE pc' = "getRpcUrl" /\ stage' = "generic" /\ UNCHANGED reqVars
     ELSE IF stage = "generic"
          THEN pc' = "post" /\ Send("post") /\ UNCHANGED stage
          ELSE pc' = "retryPost" /\ Send("retryPost") /\ UNCHANGED stage
  /\ UNCHANGED <<call, attempt, lastError, errorLog, outcome>>
  /\ UNCHANGED selKept
  /\ settleOrder' = <<>>
  /\ UNCHANGED txVars
  /\ UNCHANGED sideVars

\* the provider operation of a well-known method completes
ProviderCallSettles ==
  /\ pc = "providerCall"
  /\ \/ /\ Health(rpcUrl) # "down"
        /\ pc' = "done"
        /\ outcome' = Returned(BlockNumberOf(rpcUrl))
        /\ UNCHANGED <<call, stage, attempt, lastError, errorLog>>
     \/ \E e \in ErrorsOf(rpcUrl) : Catch(e)
  /\ UNCHANGED selVars
  /\ UNCHANGED txVars
  /\ inFlight' = Settled(inFlight)
  /\ UNCHANGED <<requests, tried>>
  /\ UNCHANGED sideVars

\* axios.post(rpcUrl, rpcRequest) of the default case completes
PostSettles ==
  /\ pc = "post"
  /\ \/ \E body \in BodiesOf(rpcUrl) :
          /\ pc' = "done"
          /\ outcome' = Returned(body.result)     \* return response.data.result
          /\ UNCHANGED <<call, stage, attempt, lastError, errorLog>>
     \/ \E e \in ErrorsOf(rpcUrl) :
          IF e.status = 406
          THEN /\ pc' = "getRpcUrl"               \* const newRpcUrl = await getRpcUrl(chainId)
               /\ stage' = "retry406"
               /\ UNCHANGED <<call, attempt, lastError, errorLog, outcome>>
          ELSE Catch(e)                           \* throw axiosError
  /\ UNCHANGED selVars
  /\ UNCHANGED txVars
  /\ inFlight' = Settled(inFlight)
  /\ UNCHANGED <<requests, tried>>
  /\ UNCHANGED sideVars

\* axios.post(newRpcUrl, rpcRequest) after a 406 completes
RetryPostSettles ==
  /\ pc = "retryPost"
  /\ \/ \E body \in BodiesOf(rpcUrl) :
          /\ pc' = "done"
          /\ outcome' = Returned(body.result)     \* return retryResponse.data.result
          /\ UNCHANGED <<call, stage, attempt, lastError, errorLog>>
     \/ \E e \in ErrorsOf(rpcUrl) : Catch(e)
  /\ UNCHANGED selVars
  /\ UNCHANGED txVars
  /\ inFlight' = Settled(inFlight)
  /\ UNCHANGED <<requests, tried>>
  /\ UNCHANGED sideVars

\* ---------------------------------------------------- handleContractCall
\* execute(chainId, contractAddress, contractName, functionName, params,
\* fromAddress, value) is called
CallExecute ==
  /\ pc = "idle"
  /\ \E id \in CallChainIds, cn \in ContractNames, fn \in FunctionNames,
        from \in FromAddresses :
       call' = [NoCall EXCEPT !.op = "execute", !.chainId = id, !.contractName = cn,
                              !.functionName = fn, !.fromAddress = from]
  /\ pc' = "loop"
  /\ stage' = "none"
  /\ attempt' = 1
  /\ lastError' = NoError
  /\ errorLog' = <<>>
  /\ outcome' = NoOutcome
  /\ UNCHANGED selVars
  /\ UNCHANGED txVars
  /\ UNCHANGED reqVars
  /\ UNCHANGED sideVars

\* variant: the constructor is looked up like any other name
IsConstructorCallNever(functionName) == FALSE

\* functionName === 'constructor'
IsConstructorCall(functionName) == functionName = "constructor"

\* variant: only pure functions are read
IsReadOnlyPureOnly(stateMutability) == stateMutability = "pure"

\* functionFragment.stateMutability === 'view' || ... === 'pure'
IsReadOnly(stateMutability) == stateMutability \in {"view", "pure"}

\* variant: a write is attempted without a signer
SignerMissingNever(fromAddress) == FALSE

\* !fromAddress in the write branch
SignerMissing(fromAddress) == fromAddress = Null

\* variant: the handle that contract.connect(wallet) returns is the one used
RunnerAfterConnect(fromAddress) ==
  IF fromAddress # Null THEN "wallet" ELSE "provider"

\* the runner of the handle kept in contract: it is created with the provider,
\* and the handle that contract.connect(wallet) returns is not kept
ContractRunner(fromAddress) == "provider"

\* the error thrown by the checks handleContractCall makes between
\* createRpcProvider and its first upstream call, NoError when all pass
CheckError(c) ==
  IF ~HasAbi(c.contractName)
  THEN Err("ContractNotConfigured",
           <<"ABI configuration not found for contract", c.contractName>>)
  ELSE IF c.fromAddress # Null /\ WalletThrows(c.fromAddress)
  THEN Err("InvalidPrivateKey", <<"invalid private key">>)
  ELSE IF IsConstructorCall(c.functionName)
  THEN Err("InvalidConstructorCall", <<"Cannot directly call constructor">>)
  ELSE IF GetFunction(c.contractName, c.functionName) = 0
  THEN Err("FunctionNotFound",
           <<"Function", c.functionName, "does not exist in contract", c.contractName>>)
  ELSE IF /\ ~IsReadOnly(abiConfig[c.contractName]
                             [GetFunction(c.contractName, c.functionName)].stateMutability)
          /\ SignerMissing(c.fromAddress)
  THEN Err("MissingSigner", <<"Write operations require fromAddress">>)
  ELSE NoError

\* getRpcUrl returned inside handleContractCall: the checks run, then the
\* read call or the gas estimate is sent
ExecuteSelected ==
  /\ pc = "selected"
  /\ call.op = "execute"
  /\ IF CheckError(call) # NoError
     THEN Catch(CheckError(call)) /\ UNCHANGED reqVars
     ELSE /\ pc' = IF IsReadOnly(abiConfig[call.contractName]
                        [GetFunction(call.contractName, call.functionName)]
                        .stateMutability)
                   THEN "read" ELSE "estimateGas"
          /\ Send(pc')
          /\ UNCHANGED <<call, stage, attempt, lastError, errorLog, outcome>>
  /\ UNCHANGED selKept
  /\ settleOrder' = <<>>
  /\ UNCHANGED <<gasEstimate, tx>>
  /\ contract' = IF HasAbi(call.contractName)
                 THEN [runner |-> ContractRunner(call.fromAddress)]
                 ELSE NoContract
  /\ UNCHANGED sideVars

\* contract[functionName](...params) of a view or pure function completes
ReadSettles ==
  /\ pc = "read"
  /\ \/ /\ Health(rpcUrl) # "down"
        /\ \E r \in ReadResults :
             /\ pc' = "done"
             /\ outcome' = Returned(processBigInt(r))
             /\ UNCHANGED <<call, stage, attempt, lastError, errorLog>>
     \/ \E e \in ErrorsOf(rpcUrl) : Catch(e)
  /\ UNCHANGED selVars
  /\ UNCHANGED txVars
  /\ inFlight' = Settled(inFlight)
  /\ UNCHANGED <<requests, tried>>
  /\ UNCHANGED sideVars

\* contract[functionName].estimateGas(...params, {value}) completes
EstimateGasSettles ==
  /\ pc = "estimateGas"
  /\ \/ /\ Health(rpcUrl) # "down"
        /\ \E g \in GasEstimates : gasEstimate' = g
        /\ pc' = "sendTx"
        /\ requests' = Append(requests, [attempt |-> attempt, op |-> "sendTx"])
        /\ inFlight' = Settled(inFlight) + 1
        /\ UNCHANGED tried
        /\ UNCHANGED <<call, stage, attempt, lastError, errorLog, outcome>>
     \/ /\ \E e \in ErrorsOf(rpcUrl) : Catch(e)
        /\ inFlight' = Settled(inFlight)
        /\ UNCHANGED <<gasEstimate, requests, tried>>
  /\ UNCHANGED <<tx, contract>>
  /\ UNCHANGED selVars
  /\ UNCHANGED sideVars

\* contract[functionName](...params, {gasLimit: gasEstimate, value}) completes
SendTxSettles ==
  /\ pc = "sendTx"
  /\ \/ /\ Health(rpcUrl) # "down"
        /\ \E t \in TxResponses :
             tx' = [hash |-> t.hash, gasLimit |-> GasLimitOf(gasEstimate),
                    blockNumber |-> t.blockNumber]
        /\ pc' = "wait"
        /\ requests' = Append(requests, [attempt |-> attempt, op |-> "wait"])
        /\ inFlight' = Settled(inFlight) + 1
        /\ UNCHANGED tried
        /\ UNCHANGED <<call, stage, attempt, lastError, errorLog, outcome>>
     \/ /\ \E e \in ErrorsOf(rpcUrl) : Catch(e)
        /\ inFlight' = Settled(inFlight)
        /\ UNCHANGED <<tx, requests, tried>>
  /\ UNCHANGED <<gasEstimate, contract>>
  /\ UNCHANGED selVars
  /\ UNCHANGED sideVars

\* tx.wait() completes; the receipt summary is built and normalised
WaitSettles ==
  /\ pc = "wait"
  /\ \/ /\ Health(rpcUrl) # "down"
        /\ \E receipt \in Receipts :
             outcome' = Returned(processBigInt(
                          Obj([transactionHash |-> Str(tx.hash),
                               gasUsed |-> Str(ToString(receipt.gasUsed)),
                               blockNumber |-> tx.blockNumber])))
        /\ pc' = "done"
        /\ UNCHANGED <<call, stage, attempt, lastError, errorLog>>
     \/ \E e \in ErrorsOf(rpcUrl) : Catch(e)
  /\ UNCHANGED txVars
  /\ UNCHANGED selVars
  /\ inFlight' = Settled(inFlight)
  /\ UNCHANGED <<requests, tried>>
  /\ UNCHANGED sideVars

\* the contract-call handler gets a request: it answers at once or calls
\* handleContractCall
HandlerRequest ==
  /\ pc = "idle"
  /\ \E req \in HttpRequests :
       IF Validate(req) # NoResponse
       THEN /\ http' = [req |-> req, res |-> Validate(req)]
            /\ call' = NoCall
            /\ pc' = "responded"
            /\ attempt' = 0
       ELSE /\ http' = [req |-> req, res |-> NoResponse]
            /\ call' = [NoCall EXCEPT !.op = "execute",
                                      !.chainId = req.body.chainId,
                                      !.contractName = req.body.contractName,
                                      !.functionName = req.body.functionName,
                                      !.fromAddress = req.body.fromAddress]
            /\ pc' = "loop"
            /\ attempt' = 1
  /\ stage' = "none"
  /\ lastError' = NoError
  /\ errorLog' = <<>>
  /\ outcome' = NoOutcome
  /\ UNCHANGED selVars
  /\ UNCHANGED txVars
  /\ UNCHANGED reqVars
  /\ UNCHANGED pureVars

\* handleContractCall returned to the handler or threw into its catch block
HandlerResponds ==
  /\ pc = "done"
  /\ http.req.method # "none"
  /\ http' = [http EXCEPT !.res =
                IF outcome.st = "ok"
                THEN Response(200, TRUE, "", {})
                ELSE Response(500, FALSE, outcome.error.kind, {})]
  /\ pc' = "responded"
  /\ UNCHANGED <<call, stage, attempt, lastError, errorLog, outcome>>
  /\ UNCHANGED selVars
  /\ UNCHANGED txVars
  /\ UNCHANGED reqVars
  /\ UNCHANGED pureVars

\* getContractFunctions is called and returns or throws (it awaits nothing)
CallListFunctions ==
  /\ pc = "idle"
  /\ \E name \in ListedNames :
       /\ call' = [NoCall EXCEPT !.op = "listFunctions", !.contractName = name]
       /\ outcome' = getContractFunctions(name)
  /\ pc' = "done"
  /\ UNCHANGED <<stage, attempt, lastError, errorLog>>
  /\ UNCHANGED selVars
  /\ UNCHANGED txVars
  /\ UNCHANGED reqVars
  /\ UNCHANGED sideVars

\* the caller has its answer (outcome); the next call may start
Finish ==
  /\ \/ pc = "done" /\ http.req.method = "none"
     \/ pc = "responded"
  /\ pc' = "idle"
  /\ call' = NoCall
  /\ stage' = "none"
  /\ shuffledUrls' = <<>>
  /\ results' = <<>>
  /\ fallbackIdx' = 0
  /\ probed' = {}
  /\ availSeen' = {}
  /\ notAvailable' = <<>>
  /\ rpcUrl' = Null
  /\ selections' = <<>>
  /\ settleOrder' = <<>>
  /\ attempt' = 0
  /\ lastError' = NoError
  /\ errorLog' = <<>>
  /\ requests' = <<>>
  /\ tried' = {}
  /\ inFlight' = 0
  /\ gasEstimate' = 0
  /\ tx' = NoTx
  /\ contract' = NoContract
  /\ UNCHANGED outcome
  /\ UNCHANGED pureVars
  /\ http' = NoHttp

Next ==
  \/ CallSelect
  \/ CallListFunctions
  \/ HandlerRequest
  \/ HandlerResponds
  \/ GetRpcUrlStart
  \/ CheckSettles
  \/ CheckNodesDone
  \/ FallbackSettles
  \/ SelectReturns
  \/ CallDispatch
  \/ LoopTest
  \/ DispatchSelected
  \/ ProviderCallSettles
  \/ PostSettles
  \/ RetryPostSettles
  \/ CallExecute
  \/ ExecuteSelected
  \/ ReadSettles
  \/ EstimateGasSettles
  \/ SendTxSettles
  \/ WaitSettles
  \/ Finish

Spec == Init /\ [][Next]_vars

\* every step the program takes once a call has been made
Step ==
  \/ GetRpcUrlStart \/ CheckSettles \/ CheckNodesDone \/ FallbackSettles
  \/ SelectReturns \/ LoopTest \/ DispatchSelected \/ ProviderCallSettles
  \/ PostSettles \/ RetryPostSettles \/ ExecuteSelected \/ ReadSettles
  \/ EstimateGasSettles \/ SendTxSettles \/ WaitSettles \/ HandlerResponds

\* every probe and every upstream call returns, and the event loop runs
LiveSpec == Init /\ [][Next]_vars /\ WF_vars(Step)

\* select called on its own: the steps of getRpcUrl
SelectStep ==
  \/ GetRpcUrlStart \/ CheckSettles \/ CheckNodesDone \/ FallbackSettles
  \/ SelectReturns

SelectNext == CallSelect \/ SelectStep \/ Finish

\* the promise of every probe request settles (answer, failure, or the
\* timeout and abort signal given to axios), and the event loop runs
SelectLiveSpec == Init /\ [][SelectNext]_vars /\ WF_vars(SelectStep)

\* ---------------------------------------------------------------------
\* processBigInt applied to the values a contract call can return

\* values that are neither arrays nor objects
Leaves ==
  {BigInt(0), BigInt(123), BigInt(0 - 45), Str("123"), Str("Token"), Num("123"),
   NullValue, Undefined}

\* arrays and plain objects over the leaves, nested up to depth d
RECURSIVE Nested(_)
Nested(d) ==
  IF d = 0 THEN Leaves
  ELSE LET inner == Nested(d - 1)
       IN  inner
           \cup {Arr(<<>>)}
           \cup {Arr(<<x>>) : x \in inner}
           \cup {Arr(<<l, x>>) : l \in {BigInt(7), NullValue}, x \in inner}
           \cup {Obj([a |-> x]) : x \in inner}
           \cup {Obj([a |-> x, b |-> l]) : l \in {BigInt(7), Str("7")}, x \in inner}

\* a value is about to be given to processBigInt
NormInit ==
  /\ call = NoCall /\ pc = "idle" /\ stage = "none"
  /\ shuffledUrls = <<>> /\ results = <<>> /\ fallbackIdx = 0
  /\ probed = {} /\ availSeen = {} /\ notAvailable = <<>> /\ rpcUrl = Null
  /\ selections = <<>>
  /\ settleOrder = <<>>
  /\ attempt = 0 /\ lastError = NoError /\ errorLog = <<>>
  /\ requests = <<>> /\ tried = {} /\ inFlight = 0
  /\ gasEstimate = 0 /\ tx = NoTx /\ contract = NoContract /\ outcome = NoOutcome
  /\ \E value \in Nested(MaxDepth) : norm = <<value>>
  /\ probe = NoProbe
  /\ http = NoHttp
  /\ worker = NoWorker

\* processBigInt(value), and again on what it returned
Normalize ==
  /\ norm # <<>>
  /\ Len(norm) < 3
  /\ norm' = Append(norm, processBigInt(norm[Len(norm)]))
  /\ UNCHANGED <<callVars, probe, http, worker>>

NormSpec == NormInit /\ [][Normalize]_vars

\* ---------------------------------------------------------------------
\* isRpcAvailable applied to the replies its request can get

\* the request of isRpcAvailable got a reply
ProbeInit ==
  /\ call = NoCall /\ pc = "idle" /\ stage = "none"
  /\ shuffledUrls = <<>> /\ results = <<>> /\ fallbackIdx = 0
  /\ probed = {} /\ availSeen = {} /\ notAvailable = <<>> /\ rpcUrl = Null
  /\ selections = <<>>
  /\ settleOrder = <<>>
  /\ attempt = 0 /\ lastError = NoError /\ errorLog = <<>>
  /\ requests = <<>> /\ tried = {} /\ inFlight = 0
  /\ gasEstimate = 0 /\ tx = NoTx /\ contract = NoContract /\ outcome = NoOutcome
  /\ norm = <<>>
  /\ \E reply \in ProbeReplies : probe = [reply |-> reply, returned |-> "pending"]
  /\ http = NoHttp
  /\ worker = NoWorker

\* isRpcAvailable completes
ProbeReturns ==
  /\ probe.returned = "pending"
  /\ probe' = [probe EXCEPT !.returned = ProbeCompletion(probe.reply)]
  /\ UNCHANGED <<callVars, norm, http, worker>>

ProbeSpec == ProbeInit /\ [][ProbeReturns]_vars

\* ---------------------------------------------------------------------
\* callContractMethod of the Workers entry point

\* rpcs.json as the entry point reads it: chains with their rpc entries
workerRpcData ==
  << [chainId |-> Num("1"), hasRpc |-> TRUE,  rpc |-> <<"w1", "w2">>],
     [chainId |-> Num("2"), hasRpc |-> TRUE,  rpc |-> <<>>],
     [chainId |-> Num("3"), hasRpc |-> FALSE, rpc |-> <<>>] >>

\* abi.json as the entry point reads it: an array of ABI entries; hasInputs
\* is FALSE for an entry without an inputs member
workerAbi ==
  << [name |-> "balanceOf", stateMutability |-> "view",       hasInputs |-> TRUE,
      inputs |-> <<"address">>],
     [name |-> "decimals",  stateMutability |-> "view",       hasInputs |-> TRUE,
      inputs |-> <<>>],
     [name |-> "name",      stateMutability |-> "view",       hasInputs |-> FALSE,
      inputs |-> <<>>],
     [name |-> "version",   stateMutability |-> "pure",       hasInputs |-> TRUE,
      inputs |-> <<>>],
     [name |-> "transfer",  stateMutability |-> "nonpayable", hasInputs |-> TRUE,
      inputs |-> <<"address", "uint256">>] >>

WorkerChainIds == {Num("1"), Str("1"), Num("2"), Num("3"), Num("999"), Str("mainnet")}
WorkerFunctionNames == {"balanceOf", "decimals", "name", "version", "transfer", "mint"}
MaxParams == 2

NaN == Num("NaN")

\* parseInt(chainId)
ParseInt(id) == IF id.v \in {"1", "2", "3", "999"} THEN Num(id.v) ELSE NaN

\* rpcData.find(c => c.chainId === parseInt(chainId)): index of the first
\* matching entry, 0 when there is none (NaN equals nothing)
WorkerFindChain(chainId) ==
  LET hits == {i \in 1..Len(workerRpcData) :
                 /\ ParseInt(chainId) # NaN
                 /\ workerRpcData[i].chainId = ParseInt(chainId)}
  IN IF hits = {} THEN 0 ELSE Min(hits)

\* getRpcUrl after getRpcData returned: the message of the error it throws,
\* "" when it returns chain.rpc[0].url
WorkerGetRpcUrlError(chainId) ==
  LET i == WorkerFindChain(chainId) IN
  IF i = 0 THEN "Chain not found"
  ELSE IF workerRpcData[i].hasRpc /\ Len(workerRpcData[i].rpc) > 0 THEN ""
  ELSE "No RPC available for chain"

\* abi.find(f => f.name === functionName): index of the entry, 0 when none
WorkerFindFunction(functionName) ==
  LET hits == {i \in 1..Len(workerAbi) : workerAbi[i].name = functionName}
  IN IF hits = {} THEN 0 ELSE Min(hits)

\* validateFunctionParams: the message of the error it throws, "" when it
\* returns functionAbi
ValidateFunctionParamsError(functionName, nparams) ==
  LET i == WorkerFindFunction(functionName) IN
  IF i = 0 THEN "not found in ABI"
  ELSE IF workerAbi[i].stateMutability # "view" THEN "is not a view function"
  ELSE IF Len(workerAbi[i].inputs) # nparams THEN "expects parameters"
  ELSE ""

\* formatParamsForSolidity and the construction of callData for a validated
\* call: the message of the TypeError they throw, "" when the request is built
BuildCallError(functionName, paramKind) ==
  LET functionAbi == workerAbi[WorkerFindFunction(functionName)] IN
  IF /\ paramKind = "number"
     /\ \E k \in 1..Len(functionAbi.inputs) : functionAbi.inputs[k] = "address"
  THEN "param.toLowerCase is not a function"
  ELSE IF ~functionAbi.hasInputs
  THEN "Cannot read properties of undefined"
  ELSE ""

\* variant: the catch block throws the error on
WorkerCatchRethrows(w, message) ==
  WorkerResult(TRUE, FALSE, message, w.chainId, w.contractAddress, w.functionName)

\* the catch block of callContractMethod
WorkerCatch(w, message) ==
  WorkerResult(FALSE, FALSE, message, w.chainId, w.contractAddress, w.functionName)

\* an error is thrown inside the try block
WorkerFails(message) ==
  worker' = [worker EXCEPT !.pc = "done", !.out = WorkerCatch(worker, message)]

\* callContractMethod(chainId, contractAddress, functionName, params) is
\* called and waits for the fetch of getRpcData
WorkerInit ==
  /\ call = NoCall /\ pc = "idle" /\ stage = "none"
  /\ shuffledUrls = <<>> /\ results = <<>> /\ fallbackIdx = 0
  /\ probed = {} /\ availSeen = {} /\ notAvailable = <<>> /\ rpcUrl = Null
  /\ selections = <<>> /\ settleOrder = <<>>
  /\ attempt = 0 /\ lastError = NoError /\ errorLog = <<>>
  /\ requests = <<>> /\ tried = {} /\ inFlight = 0
  /\ gasEstimate = 0 /\ tx = NoTx /\ contract = NoContract /\ outcome = NoOutcome
  /\ norm = <<>> /\ probe = NoProbe /\ http = NoHttp
  /\ \E id \in WorkerChainIds, fn \in WorkerFunctionNames, n \in 0..MaxParams,
        kind \in {"string", "number"} :
       worker = [NoWorker EXCEPT !.pc = "getRpcData", !.chainId = id,
                                 !.contractAddress = "0xC0", !.functionName = fn,
                                 !.nparams = n, !.paramKind = kind]

\* the fetch of rpcs.json settles and getRpcUrl returns or throws
WorkerRpcDataSettles ==
  /\ worker.pc = "getRpcData"
  /\ \E r \in {"ok", "notOk", "reject"} :
       IF r = "reject" THEN WorkerFails("fetch failed")
       ELSE IF r = "notOk" THEN WorkerFails("Failed to fetch RPC data")
       ELSE IF WorkerGetRpcUrlError(worker.chainId) # ""
       THEN WorkerFails(WorkerGetRpcUrlError(worker.chainId))
       ELSE worker' = [worker EXCEPT
                         !.pc = "getAbi",
                         !.rpcUrl = workerRpcData[WorkerFindChain(worker.chainId)].rpc[1]]
  /\ UNCHANGED <<callVars, norm, probe, http>>

\* the fetch of abi.json settles; the call is validated, the request is built
\* and sent
WorkerAbiSettles ==
  /\ worker.pc = "getAbi"
  /\ \E r \in {"array", "object", "notOk", "reject"} :
       IF r = "reject" THEN WorkerFails("fetch failed")
       ELSE IF r = "notOk" THEN WorkerFails("Failed to fetch ABI")
       ELSE IF r = "object" THEN WorkerFails("abi.find is not a function")
       ELSE IF ValidateFunctionParamsError(worker.functionName, worker.nparams) # ""
       THEN WorkerFails(ValidateFunctionParamsError(worker.functionName, worker.nparams))
       ELSE IF BuildCallError(worker.functionName, worker.paramKind) # ""
       THEN WorkerFails(BuildCallError(worker.functionName, worker.paramKind))
       ELSE worker' = [worker EXCEPT !.pc = "call", !.sent = worker.sent + 1]
  /\ UNCHANGED <<callVars, norm, probe, http>>

\* fetch(rpcUrl, request) settles
WorkerCallSettles ==
  /\ worker.pc = "call"
  /\ \E r \in {"ok", "notOk", "reject"} :
       IF r = "reject" THEN WorkerFails("fetch failed")
       ELSE IF r = "notOk" THEN WorkerFails("RPC request failed")
       ELSE worker' = [worker EXCEPT !.pc = "json"]
  /\ UNCHANGED <<callVars, norm, probe, http>>

\* response.json() settles; the error member is tested and the record of a
\* successful call is returned
WorkerJsonSettles ==
  /\ worker.pc = "json"
  /\ \E body \in {"result", "error", "notJson", "null"} :
       IF body = "notJson" THEN WorkerFails("Unexpected token")
       ELSE IF body = "null" THEN WorkerFails("Cannot read properties of null")
       ELSE IF body = "error" THEN WorkerFails("RPC error")
       ELSE worker' = [worker EXCEPT
                         !.pc = "done",
                         !.out = WorkerResult(FALSE, TRUE, "", worker.chainId,
                                              worker.contractAddress,
                                              worker.functionName)]
  /\ UNCHANGED <<callVars, norm, probe, http>>

WorkerNext ==
  \/ WorkerRpcDataSettles
  \/ WorkerAbiSettles
  \/ WorkerCallSettles
  \/ WorkerJsonSettles

WorkerSpec == WorkerInit /\ [][WorkerNext]_vars

\* ================================================================ properties
\* the configured endpoints of the chain of the running call
Candidates == Range(rpcConfig[FindChain(call.chainId)].rpc)
ChainConfigured == call.op # "none" /\ FindChain(call.chainId) # 0

\* positions at which a request other than a probe is in flight
UpstreamPcs == {"providerCall", "post", "retryPost", "read", "estimateGas", "sendTx", "wait"}

\* the failure kinds the retry policy is stated for
EndpointClassKinds ==
  {"http406", "http402", "http400", "networkError", "timeout", "detectNetwork"}

\* failures that are not endpoint-class
NonEndpointKinds ==
  {"ContractNotConfigured", "InvalidConstructorCall", "FunctionNotFound",
   "MissingSigner", "malformed", "revert"}

SelectFailedNoEndpoint ==
  pc = "done" /\ outcome.st = "error" /\ outcome.error.kind = "NoEndpointAvailable"

\* C1: whenever a probe of the running selection reported an endpoint
\* available, the selection does not fail; a url it returns is one of the
\* endpoints configured for the chain.
C1_SelectReturnsCandidate ==
  /\ (pc = "selected" => ChainConfigured /\ rpcUrl \in Candidates)
  /\ (call.op = "select" /\ pc = "done" /\ availSeen # {} =>
        outcome.st = "ok" /\ outcome.value = Str(rpcUrl) /\ rpcUrl \in Candidates)
  /\ (SelectFailedNoEndpoint => availSeen = {})

\* a selection in which some endpoints were passed over and one was returned
C1_Witness ==
  /\ call.op = "select" /\ pc = "done" /\ call.chainId = Num("137")
  /\ outcome.st = "ok" /\ Len(notAvailable) >= 2 /\ availSeen # {}

\* C2: when selection fails with NoEndpointAvailable, a probe was sent to
\* every configured endpoint of the chain and every one was found
\* unavailable: none is left unprobed.
C2_FailsOnlyAfterAllProbed ==
  SelectFailedNoEndpoint =>
    /\ probed = Candidates
    /\ Range(notAvailable) = Candidates
    /\ Len(notAvailable) = Len(rpcConfig[FindChain(call.chainId)].rpc)

\* a failed selection on the chain that has head and fallback endpoints
C2_Witness ==
  /\ SelectFailedNoEndpoint /\ call.chainId = Num("137")
  /\ fallbackIdx = Len(FallbackNodes(shuffledUrls)) /\ fallbackIdx >= 1

C4_NoEndpointsNoNetwork ==
  (ChainConfigured /\ rpcConfig[FindChain(call.chainId)].rpc = <<>>) =>
    /\ probed = {}
    /\ pc \notin UpstreamPcs \cup {"selected", "fallback"}
    /\ (pc = "done" => SelectFailedNoEndpoint)

\* a select call for the chain without endpoints has failed
C4_Witness ==
  /\ call.op = "select" /\ call.chainId = Num("5") /\ SelectFailedNoEndpoint

\* C5: the body of the retry loop of dispatch runs for attempts 1 to 3
\* only, and every dispatch call ends.
C5_DispatchBounded ==
  /\ [](call.op = "dispatch" =>
          /\ attempt \in 1..(maxRetries + 1)
          /\ (pc \notin {"loop", "done"} => attempt <= maxRetries)
          /\ Len(errorLog) <= maxRetries)
  /\ ((call.op = "dispatch") ~> (pc = "done"))

\* a dispatch call that gave up after three failed attempts
C5_Witness ==
  /\ call.op = "dispatch" /\ pc = "done" /\ attempt = maxRetries + 1
  /\ Len(errorLog) = maxRetries

\* C6 as stated: a dispatch call ends with an endpoint-class failure only
\* when its attempts are used up; with attempts left it retries.
C6_EndpointFailureRetried ==
  (call.op = "dispatch" /\ pc = "done" /\ outcome.st = "error"
     /\ outcome.error.kind \in EndpointClassKinds) => attempt > maxRetries

\* C7 as stated: after a failure that is not endpoint-class the retry loop
\* is never entered again.
C7_OtherFailureEndsCall ==
  pc = "loop" /\ errorLog # <<>> => errorLog[Len(errorLog)].kind \notin NonEndpointKinds

\* C8: when the attempts are used up, the error raised is the one caught in
\* the third attempt.
C8_LastErrorRaised ==
  (call.op \in {"dispatch", "execute"} /\ pc = "done" /\ attempt > maxRetries) =>
    /\ Len(errorLog) = maxRetries
    /\ outcome = Thrown(errorLog[maxRetries])

\* three failed attempts whose first and last errors differ
C8_Witness ==
  /\ call.op \in {"dispatch", "execute"} /\ pc = "done" /\ attempt > maxRetries
  /\ Len(errorLog) = maxRetries /\ errorLog[1] # errorLog[maxRetries]

\* C9 as stated: a passthrough call never returns a missing result as
\* success (a reply that carries an error field is raised as an error).
C9_PassthroughSurfacesError ==
  (call.op = "dispatch" /\ call.method \notin WellKnownMethods
     /\ pc = "done" /\ outcome.st = "ok") => outcome.value.ty # "undefined"

\* the scenario: eth_blockNumber on the chain with one unreachable and one
\* healthy endpoint has returned
ScenarioDone ==
  /\ call.op = "dispatch" /\ call.chainId = Num("56")
  /\ call.method = "eth_blockNumber" /\ pc = "done"

\* C10 as stated: the scenario returns the healthy endpoint's block number
\* after exactly one failover (one endpoint passed over or retried).
C10_ExactlyOneFailover ==
  ScenarioDone =>
    /\ outcome = Returned(BlockNumberOf("b2"))
    /\ Len(notAvailable) + (attempt - 1) = 1

\* C10 amended: the scenario returns the healthy endpoint's block number in
\* its first attempt; the unreachable endpoint is passed over once when the
\* shuffle puts it first and not at all otherwise, and nothing is forwarded
\* to it.
C10_AtMostOneFailover ==
  /\ (ScenarioDone =>
        /\ outcome = Returned(BlockNumberOf("b2"))
        /\ attempt = 1 /\ errorLog = <<>>
        /\ rpcUrl = "b2"
        /\ probed = {"b1", "b2"}
        /\ notAvailable = IF shuffledUrls[1] = "b1" THEN <<"b1">> ELSE <<>>)
  /\ (call.chainId = Num("56") /\ pc \in UpstreamPcs => rpcUrl = "b2")

\* the scenario has returned without passing over any endpoint
C10_Witness ==
  ScenarioDone /\ outcome.st = "ok" /\ notAvailable = <<>> /\ probed = {"b1", "b2"}
\* ---------------------------------------------------------------------
\* execute: the checks before the first upstream call

SelectionErrorKinds == {"UnknownChain", "NoEndpointAvailable"}

ConstructorCall == call.op = "execute" /\ call.functionName = "constructor"

\* the function the call names, 0 when the contract has none of that name
CalledFunction ==
  IF call.op = "execute" /\ HasAbi(call.contractName)
  THEN GetFunction(call.contractName, call.functionName)
  ELSE 0

CalledMutability ==
  IF CalledFunction = 0 THEN "none"
  ELSE abiConfig[call.contractName][CalledFunction].stateMutability

WriteCallNoSigner ==
  /\ call.op = "execute" /\ call.fromAddress = Null
  /\ CalledMutability \in {"nonpayable", "payable"}

ReadCallNoSigner ==
  /\ call.op = "execute" /\ call.fromAddress = Null
  /\ CalledMutability \in {"view", "pure"}

C13_ReadNeedsNoSigner ==
  ReadCallNoSigner =>
    /\ pc \notin {"estimateGas", "sendTx", "wait"}
    /\ \A i \in 1..Len(requests) : requests[i].op = "read"
    /\ (pc = "done" /\ outcome.st = "error") =>
         \/ outcome.error.kind \in SelectionErrorKinds /\ rpcUrl = Null
         \/ /\ outcome.error \in UpstreamErrors
            /\ Len(requests) = Len(errorLog)
    /\ (pc = "done" /\ Len(requests) > Len(errorLog)) =>
         (outcome.st = "ok" /\ outcome.value \in {processBigInt(r) : r \in ReadResults})

C13_Witness ==
  /\ ReadCallNoSigner /\ pc = "done" /\ outcome.st = "ok"
  /\ requests[Len(requests)].op = "read"

\* ---------------------------------------------------------------------
\* normalization of results

\* C14: applying processBigInt to a value it returned gives that value
\* again, for values built from scalars, bigints, arrays and objects.
C14_NormalizationIdempotent ==
  Len(norm) = 3 => norm[3] = norm[2]

C14_Witness ==
  /\ Len(norm) = 3
  /\ norm[1] = Arr(<<BigInt(7), Obj([a |-> BigInt(123), b |-> BigInt(7)])>>)
  /\ norm[2] = Arr(<<Str("7"), Obj([a |-> Str("123"), b |-> Str("7")])>>)

\* out has the shape of in, with the decimal string of every bigint of in in
\* the bigint's place and every other leaf as it is
RECURSIVE SameButBigInts(_, _)
SameButBigInts(in, out) ==
  IF in.ty = "bigint"
  THEN out = Str(ToString(in.v))
  ELSE IF in.ty = "array"
  THEN /\ out.ty = "array"
       /\ Len(out.items) = Len(in.items)
       /\ \A i \in 1..Len(in.items) : SameButBigInts(in.items[i], out.items[i])
  ELSE IF in.ty = "object"
  THEN /\ out.ty = "object"
       /\ DOMAIN out.fields = DOMAIN in.fields
       /\ \A k \in DOMAIN in.fields : SameButBigInts(in.fields[k], out.fields[k])
  ELSE out = in

RECURSIVE HasBigInt(_)
HasBigInt(value) ==
  IF value.ty = "bigint" THEN TRUE
  ELSE IF value.ty = "array" THEN \E i \in 1..Len(value.items) : HasBigInt(value.items[i])
  ELSE IF value.ty = "object" THEN \E k \in DOMAIN value.fields : HasBigInt(value.fields[k])
  ELSE FALSE

\* C15: processBigInt returns a result for every value; the result has the
\* shape of the value, every bigint at any depth is replaced by its exact
\* decimal string, every other leaf (null included) is unchanged, and no
\* bigint remains.
C15_NormalizationPreservesStructure ==
  /\ Len(norm) = 1 => ENABLED Normalize
  /\ Len(norm) >= 2 => (SameButBigInts(norm[1], norm[2]) /\ ~HasBigInt(norm[2]))

C15_Witness ==
  /\ Len(norm) = 2
  /\ norm[1] = Obj([a |-> Arr(<<NullValue, BigInt(0 - 45)>>), b |-> BigInt(7)])
  /\ norm[2] = Obj([a |-> Arr(<<NullValue, Str("-45")>>), b |-> Str("7")])

\* ---------------------------------------------------------------------
\* execute: the write branch

WriteCall == call.op = "execute" /\ CalledMutability \in {"nonpayable", "payable"}

EndedEarly == pc = "done" /\ outcome.st = "error" /\ attempt <= maxRetries

\* C18 as stated: dispatch and execute retry on the same set of failure
\* kinds, within the same budget of three attempts: a failure that ends a
\* dispatch call with attempts left is one execute does not retry either,
\* and the other way round.
C18_SameRetryPolicy ==
  /\ attempt <= maxRetries + 1
  /\ (call.op = "dispatch" /\ EndedEarly) => ~ContractNodeError(outcome.error.msg)
  /\ (call.op = "execute" /\ EndedEarly) => ~RpcNodeError(outcome.error.msg)

\* ---------------------------------------------------------------------
\* attempts of one call

RetryingCall == call.op \in {"dispatch", "execute"}

SelectionPcs == {"loop", "getRpcUrl", "checkNodes", "fallback", "selected"}

\* C19: within one dispatch or execute call at most one upstream request is
\* in flight at any moment, and none while an endpoint is being selected;
\* the selection of attempt n+1 begins only when every earlier attempt has
\* ended with a caught failure, and every request belongs to the attempt
\* that was running when it was sent.
C19_AttemptsDoNotOverlap ==
  RetryingCall =>
    /\ inFlight \in {0, 1}
    /\ inFlight = 1 <=> pc \in UpstreamPcs
    /\ (pc \in SelectionPcs \cup UpstreamPcs) =>
         /\ attempt \in 1..maxRetries + 1
         /\ Len(errorLog) = attempt - 1
         /\ \A n \in 1..Len(errorLog) :
              IF call.op = "dispatch" THEN RpcNodeError(errorLog[n].msg)
              ELSE ContractNodeError(errorLog[n].msg)
    /\ \A i \in 1..Len(requests) :
         /\ requests[i].attempt \in 1..attempt
         /\ i > 1 => requests[i-1].attempt <= requests[i].attempt
         /\ (requests[i].attempt = attempt /\ pc \in SelectionPcs) => stage # "provider"

C19_Witness ==
  /\ call.op = "dispatch" /\ pc = "providerCall" /\ attempt = 3
  /\ inFlight = 1
  /\ requests = <<[attempt |-> 1, op |-> "providerCall"],
                  [attempt |-> 2, op |-> "providerCall"],
                  [attempt |-> 3, op |-> "providerCall"]>>

\* the call failed because its three attempts are used up
Exhausted ==
  RetryingCall /\ pc = "done" /\ outcome.st = "error" /\ attempt > maxRetries

\* the only failure of the program that speaks of the chain's nodes as a whole
SaysNoNodeLeft(e) == Includes(e.msg, "No available RPC nodes for chain")

ProbeDone == probe.returned \notin {"none", "pending"}

\* C21: isRpcAvailable reports an endpoint available if and only if the
\* reply has status 200, carries the identifier that was sent and has a
\* result member; for every other reply it reports unavailable.
C21_AvailableIffGoodReply ==
  ProbeDone =>
    /\ probe.returned = "true" <=>
         /\ probe.reply.t = "response"
         /\ probe.reply.status = 200
         /\ probe.reply.data.shape = "object"
         /\ probe.reply.data.id = dynamicId
         /\ probe.reply.data.result # Undefined
    /\ probe.returned # "true" => probe.returned = "false"

\* a reply that has a result and an error member, and one whose result is null
C21_Witness ==
  /\ ProbeDone /\ probe.returned = "true"
  /\ probe.reply.data.result = NullValue
  /\ probe.reply.data.error # Undefined

\* C22: isRpcAvailable never throws: a timeout, a network failure, a reply
\* with a status of 400 or more, a reply with another identifier and a
\* reply with an empty or malformed body each make it return false.
C22_ProbeNeverRaises ==
  ProbeDone =>
    /\ probe.returned \in {"true", "false"}
    /\ ( \/ probe.reply.t \in {"timeout", "network", "canceled", "setup", "httpError"}
         \/ probe.reply.status >= 400
         \/ probe.reply.data.id # dynamicId
         \/ probe.reply.data.shape # "object" )
       => probe.returned = "false"

\* a reply whose body is the JSON value null: response.data.id throws inside
\* the try block
C22_Witness ==
  /\ ProbeDone /\ probe.returned = "false"
  /\ probe.reply.t = "response" /\ probe.reply.status = 200
  /\ probe.reply.data.shape = "null"

\* the concurrently checked nodes whose check has not completed
PendingChecks ==
  IF pc = "checkNodes" THEN {i \in 1..Len(results) : results[i] = "pending"} ELSE {}

\* C23: the probe of an endpoint that never answers completes, as
\* unavailable; every probe of a select call completes and every select
\* call returns or fails.
C23_SelectTerminates ==
  /\ []("s1" \notin availSeen /\ rpcUrl # "s1")
  /\ \A i \in 1..HeadSize : (i \in PendingChecks) ~> (i \notin PendingChecks)
  /\ (pc = "fallback") ~> (pc # "fallback")
  /\ (call.op = "select") ~> (pc = "done")

\* select ended after the endpoint that never answers was checked first
C23_Witness ==
  /\ call.op = "select" /\ call.chainId = Num("10") /\ pc = "done"
  /\ shuffledUrls = <<"s1", "o1">>
  /\ results[1] = "unavailable"

\* ---------------------------------------------------------------------
\* getRpcUrl: the remaining nodes

\* the first three nodes of the permutation, and those after them
HeadCandidates == SubSeq(shuffledUrls, 1, Min({HeadSize, Len(shuffledUrls)}))
TailCandidates == SubSeq(shuffledUrls, HeadSize + 1, Len(shuffledUrls))

\* a getRpcUrl call is running or has just ended
Selecting == pc \in {"checkNodes", "fallback", "selected"}

\* C24: a node after the first three is checked only when none of the
\* first three reported available; these nodes are checked one at a time
\* in the order of the permutation, each after the one before completed
\* unavailable, and the first that reports available ends the checks and is
\* returned.
C24_TailSequentialInOrder ==
  Selecting =>
    /\ fallbackIdx = 0 => probed = Range(HeadCandidates)
    /\ fallbackIdx > 0 =>
         /\ \A i \in 1..Len(results) : results[i] = "unavailable"
         /\ fallbackIdx <= Len(TailCandidates)
         /\ probed = Range(HeadCandidates)
                       \cup {TailCandidates[j] : j \in 1..fallbackIdx}
         /\ \A j \in 1..(fallbackIdx - 1) :
              /\ notAvailable[Len(HeadCandidates) + j] = TailCandidates[j]
              /\ TailCandidates[j] \notin availSeen
         /\ pc = "fallback" =>
              (Len(notAvailable) = Len(HeadCandidates) + fallbackIdx - 1 /\ rpcUrl = Null)
         /\ pc = "selected" =>
              /\ rpcUrl = TailCandidates[fallbackIdx]
              /\ availSeen = {rpcUrl}

\* the second node after the first three is returned
C24_Witness ==
  /\ call.op = "select" /\ pc = "selected" /\ fallbackIdx = 2
  /\ rpcUrl = shuffledUrls[HeadSize + 2]
  /\ Len(notAvailable) = HeadSize + 1

\* the isRpcAvailable calls of the running getRpcUrl that have not completed
ProbesInFlight ==
  IF pc = "checkNodes" THEN Cardinality(PendingChecks)
  ELSE IF pc = "fallback" THEN 1
  ELSE 0

\* C25: at every moment of a getRpcUrl call at most three of its probes are
\* in flight, however many endpoints the chain has.
C25_AtMostThreeProbes ==
  /\ ProbesInFlight <= HeadSize
  /\ Len(results) <= HeadSize
  /\ pc = "fallback" => PendingChecks = {}

\* three probes in flight for a chain with more than three endpoints
C25_Witness ==
  /\ call.op = "select" /\ Len(shuffledUrls) = MaxEndpoints
  /\ MaxEndpoints > HeadSize
  /\ ProbesInFlight = HeadSize

\* ---------------------------------------------------------------------
\* the chain registry

\* entry i of the registry has id as its chainId or as its networkId
Matches(i, id) == rpcConfig[i].chainId = id \/ rpcConfig[i].networkId = id

\* C26: the chain a call works on is the first entry of the registry, in
\* configured order, whose chainId or networkId equals the id given; when
\* no entry matches, select, dispatch and execute fail with UnknownChain
\* and no probe and no upstream request is issued.
C26_LookupFirstMatch ==
  call.op \in {"select", "dispatch", "execute"} =>
    IF \E i \in 1..Len(rpcConfig) : Matches(i, call.chainId)
    THEN Selecting =>
           \E i \in 1..Len(rpcConfig) :
             /\ Matches(i, call.chainId)
             /\ \A j \in 1..(i - 1) : ~Matches(j, call.chainId)
             /\ Range(shuffledUrls) = Range(rpcConfig[i].rpc)
             /\ Len(shuffledUrls) = Len(rpcConfig[i].rpc)
    ELSE /\ pc \notin {"checkNodes", "fallback", "selected"} \cup UpstreamPcs
         /\ probed = {} /\ requests = <<>>
         /\ pc = "done" => (outcome.st = "error" /\ outcome.error.kind = "UnknownChain")

\* an id that is the chainId of the first entry and the networkId of the second
C26_Witness ==
  /\ call.op = "select" /\ call.chainId = Num("1") /\ pc = "done"
  /\ Matches(1, call.chainId) /\ Matches(2, call.chainId)
  /\ outcome.st = "ok" /\ outcome.value \in {Str("e1"), Str("e2")}

\* the function entries of a configured contract, in configured order, each
\* with its name, inputs, outputs and mutability
ConfiguredFunctions(contractName) ==
  LET abi == abiConfig[contractName]
      idx == {i \in 1..Len(abi) : abi[i].type = "function"}
      Nth[k \in 0..Len(abi)] ==
        IF k = 0 THEN 0 ELSE Min({i \in idx : i > Nth[k - 1]} \cup {Len(abi) + 1})
  IN [k \in 1..Cardinality(idx) |->
        [name |-> abi[Nth[k]].name, inputs |-> abi[Nth[k]].inputs,
         outputs |-> abi[Nth[k]].outputs,
         stateMutability |-> abi[Nth[k]].stateMutability]]

\* C27: listFunctions returns exactly the function entries of a configured
\* contract, in configured order and unchanged, and the empty sequence for a
\* contract name that is not configured
C27_ListFunctionsOfContract ==
  (call.op = "listFunctions" /\ pc = "done") =>
    outcome = Returned(Arr(IF call.contractName \in DOMAIN abiConfig
                           THEN ConfiguredFunctions(call.contractName)
                           ELSE <<>>))

\* C28: the url getRpcUrl returns was probed during this call of getRpcUrl and
\* that probe reported it available
C28_ReturnedUrlProbedInSameCall ==
  /\ availSeen \subseteq probed
  /\ pc = "selected" => rpcUrl \in (probed \cap availSeen)
  /\ (call.op = "select" /\ pc = "done" /\ outcome.st = "ok") =>
       \E url \in (probed \cap availSeen) : outcome.value = Str(url)

\* a retried dispatch selected again and the second selection returned
C28_Witness ==
  /\ call.op = "dispatch" /\ attempt = 2 /\ pc = "selected"
  /\ rpcUrl \in availSeen /\ rpcUrl \notin tried

\* the request names all four required members
AllPresent(req) ==
  /\ req.body.present
  /\ req.body.chainId # Undefined
  /\ req.body.contractAddress # Absent
  /\ req.body.contractName # Absent
  /\ req.body.functionName # Absent

\* the request is one the handler is to pass on to handleContractCall
WellFormed(req) ==
  /\ req.method = "POST"
  /\ AllPresent(req)
  /\ \E i \in 1..Len(rpcConfig) : Matches(i, req.body.chainId)
  /\ req.body.contractName \in DOMAIN abiConfig

\* C29: the handler calls handleContractCall only for a POST request with all
\* four members present, a configured chain and a configured contract; every
\* other request is answered 405 (wrong method) or 400 (with the supported
\* contracts when the contract is not configured) without the call, and an
\* error of the call is answered 500 with success false
C29_HandlerValidatesBeforeExecute ==
  http.req.method # "none" =>
    /\ call.op = "execute" => WellFormed(http.req)
    /\ (pc = "responded" /\ ~WellFormed(http.req)) =>
         /\ call.op = "none"
         /\ requests = <<>> /\ probed = {}
         /\ ~http.res.success
         /\ http.res.status = IF http.req.method # "POST" THEN 405 ELSE 400
         /\ ( /\ http.req.method = "POST" /\ AllPresent(http.req)
              /\ \E i \in 1..Len(rpcConfig) : Matches(i, http.req.body.chainId))
            => http.res.supportedContracts = DOMAIN abiConfig
    /\ (pc = "responded" /\ call.op = "execute" /\ outcome.st = "error") =>
         http.res.status = 500 /\ ~http.res.success

ReadCallWithFromAddress ==
  /\ call.op = "execute" /\ call.fromAddress # Null
  /\ CalledMutability \in {"view", "pure"}

\* C30: execute for a view or pure function with a fromAddress ends as the
\* call without fromAddress ends: the read request is sent to the selected
\* endpoint and its result or its failure is the outcome; nothing else than
\* the selection and the read request can fail
C30_ReadOutcomeIgnoresFromAddress ==
  ReadCallWithFromAddress =>
    /\ \A i \in 1..Len(requests) : requests[i].op = "read"
    /\ (pc = "done" /\ outcome.st = "error") =>
         \/ outcome.error.kind \in SelectionErrorKinds /\ rpcUrl = Null
         \/ /\ outcome.error \in UpstreamErrors
            /\ requests # <<>>
            /\ Len(requests) = Len(errorLog)
    /\ (pc = "done" /\ outcome.st = "ok") =>
         /\ Len(requests) > Len(errorLog)
         /\ outcome.value \in {processBigInt(r) : r \in ReadResults}

\* C31: in the write branch the gas estimate and the submission go through a
\* contract handle bound to the signer built from fromAddress, not through
\* the handle bound to the provider only
C31_WriteThroughSignerHandle ==
  (call.op = "execute" /\ pc \in {"estimateGas", "sendTx"}) =>
    contract.runner = "wallet"

\* the failure of the first check that does not pass, in the order contract
\* resolution, constructor rejection, function resolution, signer
\* requirement; "none" when all four pass
FirstFailedCheck ==
  IF ~HasAbi(call.contractName) THEN "ContractNotConfigured"
  ELSE IF call.functionName = "constructor" THEN "InvalidConstructorCall"
  ELSE IF CalledFunction = 0 THEN "FunctionNotFound"
  ELSE IF CalledMutability \notin {"view", "pure"} /\ call.fromAddress = Null
  THEN "MissingSigner"
  ELSE "none"

\* C32: in each attempt execute checks endpoint selection, contract
\* resolution, constructor rejection, function resolution and signer
\* requirement in this order; the error is that of the first check that fails
\* and no read call, gas estimate or submission is sent when a check fails
C32_ChecksInOrder ==
  call.op = "execute" =>
    /\ FirstFailedCheck # "none" => (requests = <<>> /\ pc \notin UpstreamPcs)
    /\ (pc = "done" /\ outcome.st = "error" /\ rpcUrl = Null) =>
         outcome.error.kind \in SelectionErrorKinds
    /\ (pc = "done" /\ rpcUrl # Null /\ FirstFailedCheck # "none") =>
         (outcome.st = "error" /\ outcome.error.kind = FirstFailedCheck)

SelectionsIn(a) == Cardinality({i \in 1..Len(selections) : selections[i] = a})

\* the number of upstream requests sent in attempt a
ForwardsIn(a) == Cardinality({i \in 1..Len(requests) : requests[i].attempt = a})

\* C34: every attempt of dispatch selects an endpoint once and forwards the
\* request at most once, whatever the method; a dispatch call makes at most 3
\* selections and at most 3 forwards
C34_OneSelectionPerAttempt ==
  call.op = "dispatch" =>
    /\ \A a \in 1..maxRetries :
         /\ SelectionsIn(a) <= 1
         /\ ForwardsIn(a) <= 1
         /\ (a < attempt \/ (a = attempt /\ pc \notin {"loop", "getRpcUrl"}))
              => SelectionsIn(a) = 1
    /\ Len(selections) <= maxRetries
    /\ Len(requests) <= maxRetries

\* C35: when getRpcUrl fails with NoEndpointAvailable in an attempt of
\* dispatch or execute, the call ends at once with that error, in the same
\* attempt; no further selection is made although attempts may remain
C35_NoEndpointNotRetried ==
  call.op \in {"dispatch", "execute"} =>
    \A i \in 1..Len(errorLog) :
      errorLog[i].kind = "NoEndpointAvailable" =>
        /\ i = Len(errorLog)
        /\ pc \in {"done", "responded"}
        /\ outcome = Thrown(errorLog[i])
        /\ selections[Len(selections)] = attempt
        /\ rpcUrl = Null

\* the selection of the second attempt found no endpoint and the call ended
\* with one attempt left
C35_Witness ==
  /\ call.op = "execute" /\ pc = "done" /\ attempt = 2
  /\ Len(errorLog) = 2 /\ errorLog[2].kind = "NoEndpointAvailable"
  /\ outcome.error.kind = "NoEndpointAvailable"

\* C36: when several concurrent checks report available, getRpcUrl returns
\* the first of them in the shuffled order, whatever order the checks
\* completed in: the url returned is determined by the permutation and the
\* checks' results alone
C36_CompletionOrderIrrelevant ==
  (pc = "selected" /\ fallbackIdx = 0) =>
    /\ Len(settleOrder) = Len(results)
    /\ Range(settleOrder) = 1..Len(results)
    /\ \A i \in 1..Len(results) :
         (results[i] = "available" /\ \A j \in 1..(i - 1) : results[j] # "available")
           => rpcUrl = shuffledUrls[i]

\* two checks reported available, the later one in the shuffled order
\* completed first, and the earlier one was returned
C36_Witness ==
  /\ pc = "selected" /\ fallbackIdx = 0 /\ Len(results) = HeadSize
  /\ results[1] = "available" /\ results[3] = "available"
  /\ settleOrder[1] = 3
  /\ rpcUrl = shuffledUrls[1]

WorkerChainHasUrl ==
  \E i \in 1..Len(workerRpcData) :
    /\ worker.chainId.v = workerRpcData[i].chainId.v
    /\ workerRpcData[i].hasRpc /\ workerRpcData[i].rpc # <<>>

\* the function the worker call names is a view function and the call gives
\* as many parameters as the function declares
WorkerViewCallWellFormed ==
  \E i \in 1..Len(workerAbi) :
    /\ workerAbi[i].name = worker.functionName
    /\ workerAbi[i].stateMutability = "view"
    /\ Len(workerAbi[i].inputs) = worker.nparams

\* C38: callContractMethod never raises; every failure is returned as a
\* record with success false that echoes chainId, contractAddress and
\* functionName, success is returned only for a configured chain with an RPC
\* URL and a view function called with the declared number of parameters,
\* and no eth_call request is sent otherwise
C38_WorkerNeverRaises ==
  /\ ~worker.out.raised
  /\ worker.sent <= 1
  /\ worker.sent > 0 => (WorkerChainHasUrl /\ WorkerViewCallWellFormed)
  /\ worker.pc = "done" =>
       /\ worker.out.chainId = worker.chainId
       /\ worker.out.contractAddress = worker.contractAddress
       /\ worker.out.functionName = worker.functionName
       /\ worker.out.success =>
            (worker.sent = 1 /\ WorkerChainHasUrl /\ WorkerViewCallWellFormed)

\* the eth_call request was sent and answered with an RPC error member
C38_Witness ==
  /\ worker.pc = "done" /\ worker.sent = 1
  /\ ~worker.out.success /\ worker.out.error = "RPC error"
  /\ worker.out.functionName = "balanceOf" /\ worker.chainId = Str("1")

====
